---- MODULE Spec2Model ----
(***************************************************************************)
(* Verification model of the geopolygonsapp CSV ingestion pipeline, the    *)
(* hull-generation worker protocol and the two React controllers that own  *)
(* the workers (FileUpload.processCSV and ControlPanel.                    *)
(* handleGeneratePolygons).                                                *)
(*                                                                         *)
(* The specifications of this module:                                      *)
(*   Spec       one ingestion run of the column-detecting CSV worker       *)
(*              (src/unnamed/part_004);                                    *)
(*   DetectSpec one call of detectColumns of that worker, over all short   *)
(*              header lists;                                              *)
(*   ParseSpec  one call of parseCoordinate of that worker, over all short *)
(*              strings;                                                   *)
(*   OverlapSpec two `parse` requests sent to one such worker;             *)
(*   GenSpec    one request handled by the polygon worker                  *)
(*              (polygon.worker.ts lines 162-438), hull by hull;           *)
(*   AttrGenSpec the same for points that carry CSV columns, one of them   *)
(*              possibly with a coordinate that is not a number;           *)
(*   CtlSpec    the controllers (src/unnamed/part_001, control-panel.tsx)  *)
(*              with the workers they start (csv.worker.ts lines 35-138,   *)
(*              polygon.worker.ts lines 325-438);                          *)
(*   LiveSpec   CtlSpec with weak fairness of the worker steps and of the  *)
(*              dispatch of posted messages.                               *)
(***************************************************************************)
EXTENDS Integers, Sequences, FiniteSets, TLC

(***************************************************************************)
(* Bounds of the model.  CHUNK_SIZE, PROGRESS_EVERY and ERROR_DETAIL_LIMIT *)
(* stand for the code's 25000 (part_004:48), 10000 (part_004:299) and 10   *)
(* (part_004:232); they are scaled down so that a file of MaxRows rows     *)
(* crosses each of them.                                                   *)
(***************************************************************************)
MaxRows ==
    5

CHUNK_SIZE ==
    2

PROGRESS_EVERY ==
    2

ERROR_DETAIL_LIMIT ==
    3

(***************************************************************************)
(* Bounds of the controller model.  BATCH_SIZE stands for the 1000 of      *)
(* csv.worker.ts:38 and PROGRESS_GROUPS for the 10 of polygon.worker.ts:   *)
(* 412, both scaled down.                                                  *)
(***************************************************************************)
MaxCsvRuns ==
    2

MaxCsvRows ==
    3

BATCH_SIZE ==
    2

MaxGenRuns ==
    2

MaxGroups ==
    2

\* parse and generate requests the user makes in one behaviour
MaxRequests ==
    3

PROGRESS_GROUPS ==
    2

VARIABLES
    \* ---- CSV worker of part_004 (module-level state, lines 45-54) ----
    rowIndex, pointsBuffer, errorsBuffer,
    detectedLonCol, detectedLatCol, detectedGroupCol, columnsDetected,
    \* ---- environment of that worker ----
    header,      \* the header row of the file being parsed
    wpc,         \* "idle" | "parsing" | "done": position of the parse
    posted,      \* every message the worker has posted, in order
    fileRows,    \* history: number of data rows Papa has handed to the chunk callback
    accepted,    \* history: rowIndex of every row for which a point was built, in order
    eof,         \* history: the complete callback has run
    rowLog,      \* history: the data rows handed to the chunk callback, in order
    \* ---- FileUpload (part_001:157-167) ----
    mounted,            \* the sidebar with FileUpload and ControlPanel is mounted
    uploadedFile,       \* uploadedFile !== null
    isProcessing,
    accumulatedPoints,  \* the React state, as of the last committed render
    workerRef,          \* workerRef.current: a run number, 0 for null
    \* ---- the CSV workers FileUpload has created, by run number ----
    csvRuns,            \* number of processCSV calls so far
    csvW,               \* worker globals: live, done, rowIndex, pointsBuffer, errorsBuffer
    csvQ,               \* messages posted by the worker and not yet dispatched
    closureAcc,         \* the accumulatedPoints captured by the run's onmessage closure
    \* ---- MapPage (part_007:14-15) ----
    points, polygons,
    \* ---- history of the ingestion runs ----
    runState,           \* "Idle" | "Running" | "Completed" | "Failed" | "Superseded"
    calls,              \* the calls of onPointsLoaded / onError made for a run
    emitted,            \* the points each worker has posted, in order
    lateHandled,        \* the states other than Running in which a run had a message dispatched
    \* ---- ControlPanel (control-panel.tsx:35-41) ----
    isGenerating, lastGeneratedCount,
    polygonWorkerRef,   \* polygonWorkerRef.current: a run number, 0 for null
    \* ---- the polygon workers ControlPanel has created, by run number ----
    genRuns,            \* number of generation runs started so far
    polyW,              \* worker: live, done, the points of its request, groups,
                        \* processedGroups, generatedPolygons
    polyQ,              \* messages posted by the worker and not yet dispatched
    \* ---- history of the generation runs ----
    genState,           \* as runState
    genCalls,           \* per run: times onPolygonsGenerated or the error toast was reached
    genLateHandled,
    \* ---- one call of parseCoordinate (part_004:126-173) ----
    rawValue,           \* the argument
    parsed,             \* the value returned, "pending" before the call
    \* ---- one run of the polygon worker in detail (polygon.worker.ts:325-438) ----
    genRequest,         \* event.data: points, groupField, method, padding
    groupedPoints,      \* the Map, as a sequence of [key, pts] in insertion order
    processedGroups, generatedPolygons,
    genPosted,          \* every message the worker has posted, in order
    gpc,                \* "idle" | "groups" | "done": position of the handler
    hullLog,            \* history: what concaveman returned for each polygon pushed
    \* ---- several `parse` requests sent to one CSV worker (part_004:175-338) ----
    parsers,            \* per request: "waiting" | "parsing" | "done" and the number of
                        \* rows its Papa parser has handed over
    rowSource           \* history: the request whose file each processed row came from

ingestVars == <<rowIndex, pointsBuffer, errorsBuffer, detectedLonCol,
                detectedLatCol, detectedGroupCol, columnsDetected,
                header, wpc, posted, fileRows, accepted, eof, rowLog>>

csvCtlVars == <<mounted, uploadedFile, isProcessing, accumulatedPoints, workerRef,
                csvRuns, csvW, csvQ, closureAcc, points, polygons,
                runState, calls, emitted, lateHandled>>

polyCtlVars == <<isGenerating, lastGeneratedCount, polygonWorkerRef, genRuns,
                 polyW, polyQ, genState, genCalls, genLateHandled>>

ctlVars == <<csvCtlVars, polyCtlVars>>

coordVars == <<rawValue, parsed>>

hullVars == <<genRequest, groupedPoints, processedGroups, generatedPolygons,
              genPosted, gpc, hullLog>>

overlapVars == <<parsers, rowSource>>

unitVars == <<coordVars, hullVars, overlapVars>>

vars == <<ingestVars, ctlVars, unitVars>>

----------------------------------------------------------------------------
(***************************************************************************)
(* Column detection (part_004:57-117).  A regular expression is modelled   *)
(* by its extension over the header names the model uses: the set of       *)
(* names of ColumnUniverse that the expression matches.                    *)
(***************************************************************************)
ColumnUniverse ==
    {"lon", "lat", "x", "y", "long_name", "plate", "name", "zone", "lat_long"}

LONGITUDE_PATTERNS ==
    << {"lon"}, {}, {}, {},                 \* /^lon$/i /^lng$/i /^long$/i /^longitude$/i
       {"x"}, {}, {}, {},                   \* /^x$/i /^xcoord$/i /^x_coord$/i /^x-coord$/i
       {}, {},                              \* /^easting$/i /^east$/i
       {"lon", "long_name", "lat_long"}, {},     \* /lon/i /lng/i
       {"long_name", "lat_long"},                \* /long/i
       {}, {} >>                            \* /^coord.*x/i /x.*coord/i

LATITUDE_PATTERNS ==
    << {"lat"}, {},                         \* /^lat$/i /^latitude$/i
       {"y"}, {}, {}, {},                   \* /^y$/i /^ycoord$/i /^y_coord$/i /^y-coord$/i
       {}, {},                              \* /^northing$/i /^north$/i
       {"lat", "plate", "lat_long"},        \* /lat/i
       {}, {} >>                            \* /^coord.*y/i /y.*coord/i

GROUP_PATTERNS ==
    << {}, {}, {},                          \* activitygroupid activity_group_id activitygroup
       {}, {}, {},                          \* groupid group_id group
       {}, {}, {},                          \* category class type
       {"zone"}, {}, {},                    \* zone region area
       {}, {}, {} >>                        \* district sector cluster

\* Index of the first element of columns that pattern p matches, 0 if none.
FirstMatch(columns, p) ==
    LET hits == {i \in 1..Len(columns) : columns[i] \in p}
    IN  IF hits = {} THEN 0 ELSE CHOOSE i \in hits : \A j \in hits : i <= j

\* mutant: the loops are nested the other way round, columns outermost
findMatchingColumn_ColumnMajor(columns, patterns) ==
    LET cs == {i \in 1..Len(columns) : \E k \in 1..Len(patterns) : columns[i] \in patterns[k]}
    IN  IF cs = {} THEN "null"
        ELSE columns[CHOOSE i \in cs : \A j \in cs : i <= j]

\* for (pattern of patterns) for (col of columns) if (pattern.test(col)) return col
findMatchingColumn(columns, patterns) ==
    LET ps == {k \in 1..Len(patterns) : FirstMatch(columns, patterns[k]) # 0}
    IN  IF ps = {} THEN "null"
        ELSE LET k == CHOOSE k \in ps : \A j \in ps : k <= j
             IN  columns[FirstMatch(columns, patterns[k])]

detectLon(columns) == findMatchingColumn(columns, LONGITUDE_PATTERNS)

detectLat(columns) == findMatchingColumn(columns, LATITUDE_PATTERNS)

detectGroup(columns) ==
    findMatchingColumn(
        SelectSeq(columns, LAMBDA c : c # detectLon(columns) /\ c # detectLat(columns)),
        GROUP_PATTERNS)

\* header lists of at most MaxHeaderLen distinct names
MaxHeaderLen ==
    4

Headers ==
    UNION { {h \in [1..n -> ColumnUniverse] : \A i, j \in 1..n : i # j => h[i] # h[j]} :
            n \in 0..MaxHeaderLen }

(***************************************************************************)
(* Inputs.  A data row is given by the results parseCoordinate returns on  *)
(* its two coordinate fields: <<>> is null (unparsable), <<n>> the number  *)
(* n.  The headers cover: both columns found, one of them missing, none.   *)
(***************************************************************************)
HeaderChoices ==
    { <<"lon", "lat", "zone">>, <<"long_name", "x", "plate", "y">>,
      <<"name", "lat">>, <<"lon", "name">>, <<"name", "zone">> }

RowChoices ==
    { [longitude |-> <<45>>,  latitude |-> <<45>>],     \* in range
      [longitude |-> <<45>>,  latitude |-> <<100>>],    \* in range once swapped
      [longitude |-> <<90>>,  latitude |-> <<180>>],    \* the same, at the bounds
      [longitude |-> <<45>>,  latitude |-> <<200>>],    \* out of range either way
      [longitude |-> <<181>>, latitude |-> <<45>>],     \* the same, longitude too large
      [longitude |-> <<>>,    latitude |-> <<45>>] }    \* unparsable longitude

----------------------------------------------------------------------------
(***************************************************************************)
(* The worker of part_004.                                                 *)
(***************************************************************************)
IngestInit ==
    /\ rowIndex = 0
    /\ pointsBuffer = <<>>
    /\ errorsBuffer = <<>>
    /\ detectedLonCol = "null"
    /\ detectedLatCol = "null"
    /\ detectedGroupCol = "null"
    /\ columnsDetected = FALSE
    /\ header \in HeaderChoices
    /\ wpc = "idle"
    /\ posted = <<>>
    /\ fileRows = 0
    /\ accepted = <<>>
    /\ eof = FALSE
    /\ rowLog = <<>>

\* self.onmessage up to the call of Papa.parse (part_004:175-191)
OnParseMessage ==
    /\ wpc = "idle"
    /\ rowIndex' = 0
    /\ pointsBuffer' = <<>>
    /\ errorsBuffer' = <<>>
    /\ detectedLonCol' = "null"
    /\ detectedLatCol' = "null"
    /\ detectedGroupCol' = "null"
    /\ columnsDetected' = FALSE
    /\ wpc' = "parsing"
    /\ UNCHANGED <<header, posted, fileRows, accepted, eof, rowLog>>
    /\ UNCHANGED <<ctlVars, unitVars>>

OutOfRange(lon, lat) == lon < -180 \/ lon > 180 \/ lat < -90 \/ lat > 90

\* mutant: the swapped pair is tested against the longitude range only
LooksSwapped_LongitudeOnly(lon, lat) == lon >= -90 /\ lon <= 90

LooksSwapped(lon, lat) == lat >= -180 /\ lat <= 180 /\ lon >= -90 /\ lon <= 90

\* mutant: the id is taken from the position in the buffer
PointId_BufferIndex(idx) == Len(pointsBuffer)

\* id: `point-${rowIndex}`  (part_004:248, :272)
PointId(idx) == idx

ChunkMsg(pts, rows) == [type |-> "chunk", points |-> pts, rowsProcessed |-> rows]

ProgressMsg(rows) == [type |-> "progress", rowsProcessed |-> rows, points |-> <<>>]

\* the flush test of part_004:289
BufferIsFull(buf) == Len(buf) >= CHUNK_SIZE

\* the guard of the two detail messages, part_004:232 and :260
LogsDetail(idx) == idx < ERROR_DETAIL_LIMIT

\* The body of results.data.forEach for one row (part_004:198-306).
RowCallback(row, columns) ==
    LET lonCol == IF columnsDetected THEN detectedLonCol ELSE detectLon(columns)
        latCol == IF columnsDetected THEN detectedLatCol ELSE detectLat(columns)
        grpCol == IF columnsDetected THEN detectedGroupCol ELSE detectGroup(columns)
        missing == lonCol = "null" \/ latCol = "null"
        errs0 == IF ~columnsDetected /\ missing
                 THEN Append(errorsBuffer, [row |-> rowIndex + 1, kind |-> "columns"])
                 ELSE errorsBuffer
        longitude == row.longitude
        latitude == row.latitude
    IN  /\ detectedLonCol' = lonCol
        /\ detectedLatCol' = latCol
        /\ detectedGroupCol' = grpCol
        /\ columnsDetected' = TRUE
        /\ rowIndex' = rowIndex + 1
        /\ IF missing
           THEN /\ errorsBuffer' = errs0
                /\ UNCHANGED <<pointsBuffer, posted>>
           ELSE IF longitude = <<>> \/ latitude = <<>>
           THEN /\ errorsBuffer' = IF LogsDetail(rowIndex)
                                   THEN Append(errs0, [row |-> rowIndex + 1, kind |-> "invalid"])
                                   ELSE errs0
                /\ UNCHANGED <<pointsBuffer, posted>>
           ELSE IF OutOfRange(longitude[1], latitude[1])
           THEN IF LooksSwapped(longitude[1], latitude[1])
                THEN /\ pointsBuffer' = Append(pointsBuffer,
                                          [id |-> PointId(rowIndex), longitude |-> latitude[1],
                                           latitude |-> longitude[1]])
                     /\ errorsBuffer' = errs0
                     /\ UNCHANGED posted
                ELSE /\ errorsBuffer' = IF LogsDetail(rowIndex)
                                        THEN Append(errs0, [row |-> rowIndex + 1, kind |-> "range"])
                                        ELSE errs0
                     /\ UNCHANGED <<pointsBuffer, posted>>
           ELSE LET buf == Append(pointsBuffer,
                                  [id |-> PointId(rowIndex), longitude |-> longitude[1],
                                   latitude |-> latitude[1]])
                    flush == BufferIsFull(buf)
                    p1 == IF flush THEN Append(posted, ChunkMsg(buf, rowIndex + 1)) ELSE posted
                IN  /\ pointsBuffer' = IF flush THEN <<>> ELSE buf
                    /\ errorsBuffer' = errs0
                    /\ posted' = IF (rowIndex + 1) % PROGRESS_EVERY = 0
                                 THEN Append(p1, ProgressMsg(rowIndex + 1))
                                 ELSE p1

\* the callback on a row of the file whose header is `header`
ProcessRow(row) == RowCallback(row, header)

\* Papa hands the next data row of the file to the chunk callback.
ChunkRow ==
    /\ wpc = "parsing"
    /\ rowIndex < MaxRows
    /\ \E row \in RowChoices : ProcessRow(row) /\ rowLog' = Append(rowLog, row)
    /\ fileRows' = fileRows + 1
    /\ accepted' = IF Len(pointsBuffer') > Len(pointsBuffer) \/ Len(posted') > Len(posted)
                   THEN Append(accepted, rowIndex)
                   ELSE accepted
    /\ UNCHANGED <<header, wpc, eof>>
    /\ UNCHANGED <<ctlVars, unitVars>>

\* mutant: `complete` is posted before the remaining points
CompleteMessages_Reordered(buf, errs, lon, lat, grp) ==
    << [type |-> "complete", points |-> <<>>, errors |-> errs,
        detectedColumns |-> [longitude |-> lon, latitude |-> lat, group |-> grp]] >>
    \o (IF Len(buf) > 0 THEN <<ChunkMsg(buf, rowIndex)>> ELSE <<>>)

\* The messages the complete callback posts (part_004:308-330).
CompleteMessages(buf, errs, lon, lat, grp) ==
    (IF Len(buf) > 0 THEN <<ChunkMsg(buf, rowIndex)>> ELSE <<>>)
    \o << [type |-> "complete", points |-> <<>>, errors |-> errs,
           detectedColumns |-> [longitude |-> lon, latitude |-> lat, group |-> grp]] >>

\* Papa reached the end of the file: the complete callback.
ParseComplete ==
    /\ wpc = "parsing"
    /\ posted' = posted \o CompleteMessages(pointsBuffer, errorsBuffer,
                                              detectedLonCol, detectedLatCol, detectedGroupCol)
    /\ pointsBuffer' = <<>>
    /\ wpc' = "done"
    /\ eof' = TRUE
    /\ UNCHANGED <<rowIndex, errorsBuffer, detectedLonCol, detectedLatCol,
                   detectedGroupCol, columnsDetected, header, fileRows, accepted, rowLog>>
    /\ UNCHANGED <<ctlVars, unitVars>>

\* Papa could not read the file any further: the error callback (part_004:331-336).
ParseError ==
    /\ wpc = "parsing"
    /\ posted' = Append(posted, [type |-> "error"])
    /\ wpc' = "done"
    /\ UNCHANGED <<rowIndex, pointsBuffer, errorsBuffer, detectedLonCol, detectedLatCol,
                   detectedGroupCol, columnsDetected, header, fileRows, accepted, eof,
                   rowLog>>
    /\ UNCHANGED <<ctlVars, unitVars>>

(***************************************************************************)
(* Several `parse` requests sent to the same worker.  Papa.parse returns   *)
(* at once and reads the file in later tasks of the worker's event loop,   *)
(* one task per chunk of the file; between two tasks the worker may take   *)
(* its next message.  Every parser calls back into the same module-level   *)
(* state.  A chunk is one row here.                                        *)
(***************************************************************************)
MaxParses ==
    2

MaxFileRows ==
    2

ParseIds == 1..MaxParses

\* the header of the file of each request
FileHeader(p) == IF p = 1 THEN <<"lon", "lat", "zone">> ELSE <<"x", "y", "name">>

\* rows of a file: in range, and with an unparsable longitude
FileRowChoices ==
    { [longitude |-> <<45>>, latitude |-> <<45>>],
      [longitude |-> <<>>,   latitude |-> <<45>>] }

OverlapIdle ==
    /\ parsers = [p \in ParseIds |-> [state |-> "waiting", rows |-> 0]]
    /\ rowSource = <<>>

\* self.onmessage for the next request of the queue (part_004:175-191)
ReceiveParse(p) ==
    /\ parsers[p].state = "waiting"
    /\ \A q \in 1..(p - 1) : parsers[q].state # "waiting"
    /\ rowIndex' = 0
    /\ pointsBuffer' = <<>>
    /\ errorsBuffer' = <<>>
    /\ detectedLonCol' = "null"
    /\ detectedLatCol' = "null"
    /\ detectedGroupCol' = "null"
    /\ columnsDetected' = FALSE
    /\ wpc' = "parsing"
    /\ parsers' = [parsers EXCEPT ![p].state = "parsing"]
    /\ UNCHANGED <<header, posted, fileRows, accepted, eof, rowLog, rowSource>>
    /\ UNCHANGED <<ctlVars, coordVars, hullVars>>

\* the parser of request p hands its next row to the chunk callback
\* (part_004:196-307)
ParserRow(p) ==
    /\ parsers[p].state = "parsing"
    /\ parsers[p].rows < MaxFileRows
    /\ \E row \in FileRowChoices :
          RowCallback(row, FileHeader(p)) /\ rowLog' = Append(rowLog, row)
    /\ parsers' = [parsers EXCEPT ![p].rows = @ + 1]
    /\ rowSource' = Append(rowSource, p)
    /\ fileRows' = fileRows + 1
    /\ accepted' = IF Len(pointsBuffer') > Len(pointsBuffer) \/ Len(posted') > Len(posted)
                   THEN Append(accepted, rowIndex)
                   ELSE accepted
    /\ UNCHANGED <<header, wpc, eof>>
    /\ UNCHANGED <<ctlVars, coordVars, hullVars>>

\* the parser of request p reached the end of its file: the complete
\* callback (part_004:308-330)
ParserComplete(p) ==
    /\ parsers[p].state = "parsing"
    /\ posted' = posted \o CompleteMessages(pointsBuffer, errorsBuffer,
                                              detectedLonCol, detectedLatCol, detectedGroupCol)
    /\ pointsBuffer' = <<>>
    /\ parsers' = [parsers EXCEPT ![p].state = "done"]
    /\ wpc' = IF \E q \in ParseIds \ {p} : parsers[q].state = "parsing"
              THEN "parsing" ELSE "done"
    /\ eof' = TRUE
    /\ UNCHANGED <<rowIndex, errorsBuffer, detectedLonCol, detectedLatCol,
                   detectedGroupCol, columnsDetected, header, fileRows, accepted, rowLog,
                   rowSource>>
    /\ UNCHANGED <<ctlVars, coordVars, hullVars>>

\* detectColumns(row) on the keys of a first row (part_004:94-117)
DetectColumns ==
    /\ wpc = "idle"
    /\ ~columnsDetected
    /\ detectedLonCol' = detectLon(header)
    /\ detectedLatCol' = detectLat(header)
    /\ detectedGroupCol' = detectGroup(header)
    /\ columnsDetected' = TRUE
    /\ UNCHANGED <<rowIndex, pointsBuffer, errorsBuffer, header, wpc, posted, fileRows,
                   accepted, eof, rowLog>>
    /\ UNCHANGED <<ctlVars, unitVars>>

----------------------------------------------------------------------------
(***************************************************************************)
(* The CSV worker FileUpload starts (csv.worker.ts:35-138).  A data row is *)
(* given by whether Number() of both normalised fields is finite.  A point *)
(* is named by the file it comes from (the run number) and its rowIndex.   *)
(***************************************************************************)
CsvRunIds == 1..MaxCsvRuns

NoWorker == [live |-> FALSE, done |-> FALSE, rowIndex |-> 0,
             pointsBuffer |-> <<>>, errorsBuffer |-> <<>>]

\* worker globals after `rowIndex = 0; pointsBuffer = []; errorsBuffer = []`
\* (csv.worker.ts:47-49)
FreshWorker == [NoWorker EXCEPT !.live = TRUE]

\* the test of csv.worker.ts:100
BatchIsFull(buf) == Len(buf) >= BATCH_SIZE

\* The body of results.data.forEach for one row (csv.worker.ts:58-108):
\* the worker globals and the messages posted.
CsvRowStep(w, r, finite) ==
    IF ~finite
    THEN [w |-> [w EXCEPT !.errorsBuffer = Append(@, w.rowIndex + 1),
                          !.rowIndex = @ + 1],
          msgs |-> <<>>]
    ELSE LET buf == Append(w.pointsBuffer, [file |-> r, id |-> w.rowIndex])
         IN  IF BatchIsFull(buf)
             THEN [w |-> [w EXCEPT !.pointsBuffer = <<>>, !.rowIndex = @ + 1],
                   msgs |-> << [type |-> "progress", rowsProcessed |-> w.rowIndex + 1,
                                points |-> buf] >>]
             ELSE [w |-> [w EXCEPT !.pointsBuffer = buf, !.rowIndex = @ + 1],
                   msgs |-> <<>>]

\* The message the complete callback posts (csv.worker.ts:110-130).
CsvCompleteMsg(w) ==
    IF Len(w.pointsBuffer) = 0 /\ Len(w.errorsBuffer) > 0
    THEN [type |-> "error"]
    ELSE [type |-> "complete", points |-> w.pointsBuffer, errors |-> w.errorsBuffer]

RECURSIVE MsgPoints(_)
MsgPoints(msgs) ==
    IF msgs = <<>> THEN <<>>
    ELSE (IF Head(msgs).type \in {"progress", "complete"} THEN Head(msgs).points ELSE <<>>)
         \o MsgPoints(Tail(msgs))

\* the worker posts msgs and continues with globals w
CsvWorkerPosts(r, w, msgs) ==
    /\ csvW' = [csvW EXCEPT ![r] = w]
    /\ csvQ' = [csvQ EXCEPT ![r] = @ \o msgs]
    /\ emitted' = [emitted EXCEPT ![r] = @ \o MsgPoints(msgs)]
    /\ UNCHANGED <<mounted, uploadedFile, isProcessing, accumulatedPoints, workerRef,
                   csvRuns, closureAcc, points, polygons, runState, calls, lateHandled>>
    /\ UNCHANGED <<ingestVars, unitVars, polyCtlVars>>

\* Papa hands the next data row to the chunk callback of worker r.
CsvRow(r) ==
    /\ csvW[r].live /\ ~csvW[r].done
    /\ csvW[r].rowIndex < MaxCsvRows
    /\ \E finite \in BOOLEAN :
          LET step == CsvRowStep(csvW[r], r, finite)
          IN  CsvWorkerPosts(r, step.w, step.msgs)

\* Papa reached the end of the file in worker r.
CsvComplete(r) ==
    /\ csvW[r].live /\ ~csvW[r].done
    /\ CsvWorkerPosts(r, [csvW[r] EXCEPT !.done = TRUE], <<CsvCompleteMsg(csvW[r])>>)

\* Papa's error callback in worker r (csv.worker.ts:131-136).
CsvReadError(r) ==
    /\ csvW[r].live /\ ~csvW[r].done
    /\ CsvWorkerPosts(r, [csvW[r] EXCEPT !.done = TRUE], << [type |-> "error"] >>)

\* The worker script fails before it parses anything: the error event that
\* worker.onerror receives (part_001:259).
CsvWorkerFault(r) ==
    /\ csvW[r].live /\ ~csvW[r].done
    /\ csvW[r].rowIndex = 0
    /\ CsvWorkerPosts(r, [csvW[r] EXCEPT !.done = TRUE], << [type |-> "werror"] >>)

(***************************************************************************)
(* FileUpload (part_001:157-320).  Worker.terminate() stops the worker and *)
(* empties the port message queue of its outside port, so no message of a  *)
(* terminated worker is dispatched.                                        *)
(***************************************************************************)
\* mutant: the existing worker is left running
KeepWorker(W, ref) == W

\* if (workerRef.current) workerRef.current.terminate()  (part_001:189-191)
TerminateWorker(W, ref) ==
    IF ref = 0 THEN W ELSE [W EXCEPT ![ref].live = FALSE]

\* the port message queues after TerminateWorker: a dead worker has none
QueuesAfter(Q, W) == [r \in DOMAIN Q |-> IF W[r].live THEN Q[r] ELSE <<>>]

\* a run whose worker is terminated before its outcome was delivered
Supersede(rs, ref) ==
    IF ref # 0 /\ rs[ref] = "Running" THEN [rs EXCEPT ![ref] = "Superseded"] ELSE rs

\* mutant: the new worker is created without terminating the existing one
WorkersAfterStart_NoTerminate(W, ref, r) == [W EXCEPT ![r] = FreshWorker]

\* the workers after `terminate existing worker if any; create new worker`
\* (part_001:188-198)
WorkersAfterStart(W, ref, r) == [TerminateWorker(W, ref) EXCEPT ![r] = FreshWorker]

\* processCSV(file), reached from handleDrop / handleFileSelect
\* (part_001:179-281, 284-312)
ProcessCSV ==
    /\ mounted
    /\ csvRuns < MaxCsvRuns
    /\ csvRuns + genRuns < MaxRequests
    /\ LET r == csvRuns + 1
           W == WorkersAfterStart(csvW, workerRef, r)
       IN  /\ uploadedFile' = TRUE
           /\ isProcessing' = TRUE
           /\ accumulatedPoints' = <<>>
           /\ closureAcc' = [closureAcc EXCEPT ![r] = accumulatedPoints]
           /\ csvW' = W
           /\ csvQ' = QueuesAfter(csvQ, W)
           /\ workerRef' = r
           /\ csvRuns' = r
           /\ runState' = [Supersede(runState, workerRef) EXCEPT ![r] = "Running"]
    /\ UNCHANGED <<mounted, points, polygons, calls, emitted, lateHandled>>
    /\ UNCHANGED <<ingestVars, unitVars, polyCtlVars>>

\* mutant: the `error` branches are missing
CsvOutcome_NoErrorBranch(acc, m) ==
    IF m.type = "complete" /\ Len(acc \o m.points) > 0
    THEN [kind |-> "points", points |-> acc \o m.points]
    ELSE [kind |-> "none", points |-> <<>>]

\* What worker.onmessage / worker.onerror hand to the caller for message m,
\* acc being the accumulatedPoints of the closure (part_001:200-272).
CsvOutcome(acc, m) ==
    CASE m.type = "progress" -> [kind |-> "none", points |-> <<>>]
      [] m.type = "complete" ->
            LET allPoints == acc \o m.points
            IN  IF Len(allPoints) = 0
                THEN [kind |-> "error", points |-> <<>>]
                ELSE [kind |-> "points", points |-> allPoints]
      [] OTHER -> [kind |-> "error", points |-> <<>>]

\* whether the handler ends with worker.terminate(); workerRef.current = null
\* (part_001:244-246, 255-257, 269-271; not on the return of line 224)
CsvHandlerCleansUp(acc, m) ==
    \/ m.type \in {"error", "werror"}
    \/ m.type = "complete" /\ Len(acc \o m.points) > 0

\* The event loop dispatches the oldest message of worker r to its handlers.
HandleCsvMessage(r) ==
    /\ csvQ[r] # <<>>
    /\ LET m == Head(csvQ[r])
           out == CsvOutcome(closureAcc[r], m)
           cleanup == CsvHandlerCleansUp(closureAcc[r], m)
           W == IF cleanup THEN TerminateWorker(csvW, r) ELSE csvW
       IN  /\ accumulatedPoints' = IF m.type = "progress" /\ mounted
                                   THEN accumulatedPoints \o m.points
                                   ELSE accumulatedPoints
           /\ isProcessing' = IF out.kind = "none" THEN isProcessing ELSE FALSE
           /\ points' = IF out.kind = "points" THEN out.points ELSE points
           /\ calls' = IF out.kind = "none" THEN calls
                       ELSE Append(calls, [run |-> r, kind |-> out.kind,
                                           points |-> out.points, latest |-> csvRuns])
           /\ csvW' = W
           /\ csvQ' = QueuesAfter([csvQ EXCEPT ![r] = Tail(@)], W)
           /\ workerRef' = IF cleanup THEN 0 ELSE workerRef
           /\ runState' = IF runState[r] # "Running" \/ out.kind = "none" THEN runState
                          ELSE [runState EXCEPT ![r] = IF out.kind = "points"
                                                       THEN "Completed" ELSE "Failed"]
           /\ lateHandled' = lateHandled \cup ({runState[r]} \ {"Running"})
    /\ UNCHANGED <<mounted, uploadedFile, csvRuns, closureAcc, polygons, emitted>>
    /\ UNCHANGED <<ingestVars, unitVars, polyCtlVars>>

\* handleRemoveFile (part_001:314-320) with MapPage's onClearData (part_007:69-72)
HandleRemoveFile ==
    /\ mounted
    /\ uploadedFile
    /\ uploadedFile' = FALSE
    /\ points' = <<>>
    /\ polygons' = <<>>
    /\ UNCHANGED <<mounted, isProcessing, accumulatedPoints, workerRef, csvRuns, csvW,
                   csvQ, closureAcc, runState, calls, emitted, lateHandled>>
    /\ UNCHANGED <<ingestVars, unitVars, polyCtlVars>>

----------------------------------------------------------------------------
(***************************************************************************)
(* The polygon worker (polygon.worker.ts:325-438).  The request is given   *)
(* by the sizes of the groups its points fall into, in first-seen order;   *)
(* concaveman is a library: what it returns for a group of 3 or more       *)
(* points (a usable hull, a hull of fewer than 3 vertices, an exception)   *)
(* is an input.                                                            *)
(***************************************************************************)
GenRunIds == 1..MaxGenRuns

\* `points` is the point list of the `generate` message the worker was given
NoPolyWorker == [live |-> FALSE, done |-> FALSE, points |-> <<>>, groups |-> <<>>,
                 processedGroups |-> 0, generatedPolygons |-> <<>>]

RECURSIVE SumSeq(_)
SumSeq(q) == IF q = <<>> THEN 0 ELSE Head(q) + SumSeq(Tail(q))

\* the ways n points fall into at most MaxGroups groups
Groupings(n) ==
    {q \in UNION {[1..k -> 1..n] : k \in 1..MaxGroups} : SumSeq(q) = n}

HullResults == {"hull", "degenerate", "throws"}

\* the progress test of polygon.worker.ts:412
ProgressDue(n) == n % PROGRESS_GROUPS = 0

\* The body of groupedPoints.forEach for the next group (polygon.worker.ts:
\* 349-425): the worker locals and the messages posted.
PolyGroupStep(w, hull) ==
    LET k == w.processedGroups + 1
        counted == [w EXCEPT !.processedGroups = k]
    IN  IF w.groups[k] < 3 \/ hull # "hull"
        THEN [w |-> counted, msgs |-> <<>>]
        ELSE [w |-> [counted EXCEPT !.generatedPolygons =
                        Append(@, [groupId |-> k, pointCount |-> w.groups[k]])],
              msgs |-> IF ProgressDue(k)
                       THEN << [type |-> "progress", groupsProcessed |-> k,
                                totalGroups |-> Len(w.groups), currentGroup |-> k] >>
                       ELSE <<>>]

PolyWorkerPosts(g, w, msgs) ==
    /\ polyW' = [polyW EXCEPT ![g] = w]
    /\ polyQ' = [polyQ EXCEPT ![g] = @ \o msgs]
    /\ UNCHANGED <<isGenerating, lastGeneratedCount, polygonWorkerRef, genRuns,
                   genState, genCalls, genLateHandled>>
    /\ UNCHANGED <<ingestVars, unitVars, csvCtlVars>>

\* worker g processes its next group
PolyGroup(g) ==
    /\ polyW[g].live /\ ~polyW[g].done
    /\ polyW[g].processedGroups < Len(polyW[g].groups)
    /\ \E hull \in HullResults :
          LET step == PolyGroupStep(polyW[g], hull)
          IN  PolyWorkerPosts(g, step.w, step.msgs)

\* worker g has gone through all groups (polygon.worker.ts:427-430)
PolyComplete(g) ==
    /\ polyW[g].live /\ ~polyW[g].done
    /\ polyW[g].processedGroups = Len(polyW[g].groups)
    /\ PolyWorkerPosts(g, [polyW[g] EXCEPT !.done = TRUE],
                       << [type |-> "complete", polygons |-> polyW[g].generatedPolygons] >>)

\* The worker script fails before it handles the request: the error event
\* that worker.onerror receives (control-panel.tsx:149).
PolyWorkerFault(g) ==
    /\ polyW[g].live /\ ~polyW[g].done
    /\ polyW[g].processedGroups = 0
    /\ PolyWorkerPosts(g, [polyW[g] EXCEPT !.done = TRUE], << [type |-> "werror"] >>)

(***************************************************************************)
(* ControlPanel (control-panel.tsx:35-171).                                *)
(***************************************************************************)
\* handleGeneratePolygons (control-panel.tsx:80-171); with no points it only
\* shows a toast.
HandleGeneratePolygons ==
    /\ mounted
    /\ genRuns < MaxGenRuns
    /\ csvRuns + genRuns < MaxRequests
    /\ Len(points) > 0
    /\ LET g == genRuns + 1
           W == TerminateWorker(polyW, polygonWorkerRef)
       IN  /\ isGenerating' = TRUE
           /\ \E groups \in Groupings(Len(points)) :
                 polyW' = [W EXCEPT ![g] = [NoPolyWorker EXCEPT !.live = TRUE,
                                                               !.points = points,
                                                               !.groups = groups]]
           /\ polyQ' = QueuesAfter(polyQ, W)
           /\ polygonWorkerRef' = g
           /\ genRuns' = g
           /\ genState' = [Supersede(genState, polygonWorkerRef) EXCEPT ![g] = "Running"]
    /\ UNCHANGED <<lastGeneratedCount, genCalls, genLateHandled>>
    /\ UNCHANGED <<ingestVars, unitVars, mounted, uploadedFile, isProcessing, accumulatedPoints,
                   workerRef, csvRuns, csvW, csvQ, closureAcc, points, polygons,
                   runState, calls, emitted, lateHandled>>

\* mutant: the `complete` branch is missing
PolyOutcome_NoCompleteBranch(m) ==
    IF m.type \in {"error", "werror"} THEN "error" ELSE "none"

\* What worker.onmessage / worker.onerror do with message m
\* (control-panel.tsx:107-162): nothing for the caller, onPolygonsGenerated,
\* or the error toast.
PolyOutcome(m) ==
    CASE m.type = "progress" -> "none"
      [] m.type = "complete" -> "polygons"
      [] OTHER -> "error"

\* The event loop dispatches the oldest message of worker g to its handlers.
HandlePolyMessage(g) ==
    /\ polyQ[g] # <<>>
    /\ LET m == Head(polyQ[g])
           out == PolyOutcome(m)
           W == IF out = "none" THEN polyW ELSE TerminateWorker(polyW, g)
       IN  /\ polygons' = IF out = "polygons" THEN m.polygons ELSE polygons
           /\ lastGeneratedCount' = IF out = "polygons" /\ mounted
                                    THEN Len(m.polygons) ELSE lastGeneratedCount
           /\ isGenerating' = IF out = "none" THEN isGenerating ELSE FALSE
           /\ polyW' = W
           /\ polyQ' = QueuesAfter([polyQ EXCEPT ![g] = Tail(@)], W)
           /\ polygonWorkerRef' = IF out = "none" THEN polygonWorkerRef ELSE 0
           /\ genCalls' = IF out = "none" THEN genCalls ELSE [genCalls EXCEPT ![g] = @ + 1]
           /\ genState' = IF genState[g] # "Running" \/ out = "none" THEN genState
                          ELSE [genState EXCEPT ![g] = IF out = "polygons"
                                                       THEN "Completed" ELSE "Failed"]
           /\ genLateHandled' = genLateHandled \cup ({genState[g]} \ {"Running"})
    /\ UNCHANGED genRuns
    /\ UNCHANGED <<ingestVars, unitVars, mounted, uploadedFile, isProcessing, accumulatedPoints,
                   workerRef, csvRuns, csvW, csvQ, closureAcc, points,
                   runState, calls, emitted, lateHandled>>

\* The effect that resets the panel once the points are cleared
\* (control-panel.tsx:44-49) with MapPage's onResetState (part_007:87-90).
ResetEffect ==
    /\ mounted
    /\ Len(points) = 0 /\ lastGeneratedCount > 0
    /\ lastGeneratedCount' = 0
    /\ polygons' = <<>>
    /\ UNCHANGED <<isGenerating, polygonWorkerRef, genRuns, polyW, polyQ,
                   genState, genCalls, genLateHandled>>
    /\ UNCHANGED <<ingestVars, unitVars, mounted, uploadedFile, isProcessing, accumulatedPoints,
                   workerRef, csvRuns, csvW, csvQ, closureAcc, points,
                   runState, calls, emitted, lateHandled>>

\* The sidebar is closed: the cleanups of the two unmount effects
\* (part_001:170-177, control-panel.tsx:52-59).
Unmount ==
    /\ mounted
    /\ mounted' = FALSE
    /\ LET W == TerminateWorker(csvW, workerRef)
       IN  /\ csvW' = W
           /\ csvQ' = QueuesAfter(csvQ, W)
    /\ workerRef' = 0
    /\ runState' = Supersede(runState, workerRef)
    /\ LET W == TerminateWorker(polyW, polygonWorkerRef)
       IN  /\ polyW' = W
           /\ polyQ' = QueuesAfter(polyQ, W)
    /\ polygonWorkerRef' = 0
    /\ genState' = Supersede(genState, polygonWorkerRef)
    /\ UNCHANGED <<uploadedFile, isProcessing, accumulatedPoints, csvRuns, closureAcc,
                   points, polygons, calls, emitted, lateHandled>>
    /\ UNCHANGED <<isGenerating, lastGeneratedCount, genRuns, genCalls, genLateHandled>>
    /\ UNCHANGED <<ingestVars, unitVars>>

\* The sidebar is opened again: new FileUpload and ControlPanel instances
\* (part_001:158-167, control-panel.tsx:35-41).
Mount ==
    /\ ~mounted
    /\ mounted' = TRUE
    /\ uploadedFile' = FALSE
    /\ isProcessing' = FALSE
    /\ accumulatedPoints' = <<>>
    /\ workerRef' = 0
    /\ isGenerating' = FALSE
    /\ lastGeneratedCount' = 0
    /\ polygonWorkerRef' = 0
    /\ UNCHANGED <<csvRuns, csvW, csvQ, closureAcc, points, polygons,
                   runState, calls, emitted, lateHandled>>
    /\ UNCHANGED <<genRuns, polyW, polyQ, genState, genCalls, genLateHandled>>
    /\ UNCHANGED <<ingestVars, unitVars>>

CtlIdle ==
    /\ mounted = TRUE
    /\ uploadedFile = FALSE
    /\ isProcessing = FALSE
    /\ accumulatedPoints = <<>>
    /\ workerRef = 0
    /\ csvRuns = 0
    /\ csvW = [r \in CsvRunIds |-> NoWorker]
    /\ csvQ = [r \in CsvRunIds |-> <<>>]
    /\ closureAcc = [r \in CsvRunIds |-> <<>>]
    /\ points = <<>>
    /\ polygons = <<>>
    /\ runState = [r \in CsvRunIds |-> "Idle"]
    /\ calls = <<>>
    /\ emitted = [r \in CsvRunIds |-> <<>>]
    /\ lateHandled = {}
    /\ isGenerating = FALSE
    /\ lastGeneratedCount = 0
    /\ polygonWorkerRef = 0
    /\ genRuns = 0
    /\ polyW = [g \in GenRunIds |-> NoPolyWorker]
    /\ polyQ = [g \in GenRunIds |-> <<>>]
    /\ genState = [g \in GenRunIds |-> "Idle"]
    /\ genCalls = [g \in GenRunIds |-> 0]
    /\ genLateHandled = {}

----------------------------------------------------------------------------
(***************************************************************************)
(* One run of the polygon worker in detail (polygon.worker.ts:162-438).    *)
(* Coordinates are pairs of integers on a small grid; a distance is kept   *)
(* as its square, a fraction <<numerator, denominator>>, so that the       *)
(* comparisons of douglasPeucker are exact.  concaveman is a library: the  *)
(* ring it returns for a group is an input of the step.                    *)
(***************************************************************************)
MaxPoints ==
    4

\* the largest point list of a request whose points carry CSV columns
MaxAttrPoints ==
    3

\* (padding * 0.0001)^2 for padding = 1 and 0.00005^2, in squared grid units
PaddingToleranceSq ==
    1

DefaultToleranceSq ==
    9

\* an own property that is missing (undefined) and one that holds null
Undefined == "<undefined>"

Null == "<null>"

GridCoords == { <<0, 0>>, <<2, 0>>, <<0, 2>> }

GroupValues == {"a", Undefined, Null}

Methods == {"concave", "simplified"}

Paddings == {0, 1}

\* The CSV columns a point may carry besides its coordinates: the column the
\* request groups by, an ordinary column, and a column that bears the name
\* of a property the worker sets itself.  A column a point lacks reads as
\* Undefined.
AttributeKeys == {"grp", "name", "groupId"}

\* the point list given by the coordinates and the group value of each point
PointList(f) ==
    [i \in DOMAIN f |-> [id |-> i - 1, longitude |-> f[i][1][1],
                         latitude |-> f[i][1][2], grp |-> f[i][2],
                         name |-> Undefined, groupId |-> Undefined]]

\* a coordinate that is not a finite number (NaN), off the grid
NaN ==
    9

\* distinct grid coordinates for the points of a list, by position
SpreadCoords(i) == <<2 * (i % 2), 2 * (i \div 2)>>

\* the point list given by the columns of each point; the point at position
\* `bad`, if any, has a longitude that is not a number
AttrPointList(f, bad) ==
    [i \in DOMAIN f |-> [id |-> i - 1,
                         longitude |-> IF i = bad THEN NaN ELSE SpreadCoords(i)[1],
                         latitude |-> SpreadCoords(i)[2],
                         grp |-> f[i][1], name |-> f[i][2], groupId |-> f[i][3]]]

\* event.data of a `generate` message
Request(pts, m, pad) ==
    [points |-> pts, groupField |-> "grp", method |-> m, padding |-> pad]

NoRequest == Request(<<>>, "concave", 1)

\* String(point[groupField] ?? 'undefined')  (polygon.worker.ts:337)
GroupKey(point) == IF point.grp \in {Undefined, Null} THEN "undefined" ELSE point.grp

RECURSIVE GroupInto(_, _)
\* points.forEach(...) filling the Map (polygon.worker.ts:336-341)
GroupInto(grouped, pts) ==
    IF pts = <<>> THEN grouped
    ELSE LET key == GroupKey(Head(pts))
             at == {i \in 1..Len(grouped) : grouped[i].key = key}
         IN  GroupInto(IF at = {}
                       THEN Append(grouped, [key |-> key, pts |-> <<Head(pts)>>])
                       ELSE LET i == CHOOSE i \in at : TRUE
                            IN  [grouped EXCEPT ![i].pts = Append(@, Head(pts))],
                       Tail(pts))

\* the square of perpendicularDistance(point, lineStart, lineEnd)
\* (polygon.worker.ts:235-269)
perpendicularDistance(point, lineStart, lineEnd) ==
    LET A == point[1] - lineStart[1]
        B == point[2] - lineStart[2]
        C == lineEnd[1] - lineStart[1]
        D == lineEnd[2] - lineStart[2]
        dot == A * C + B * D
        lenSq == C * C + D * D
    IN  IF lenSq = 0 THEN <<A * A + B * B, 1>>
        ELSE IF dot < 0 THEN <<A * A + B * B, 1>>                  \* param < 0
        ELSE IF dot > lenSq                                        \* param > 1
             THEN <<(point[1] - lineEnd[1]) * (point[1] - lineEnd[1])
                    + (point[2] - lineEnd[2]) * (point[2] - lineEnd[2]), 1>>
        ELSE <<(A * D - B * C) * (A * D - B * C), lenSq>>

\* d1 > d2 for two squared distances
Farther(d1, d2) == d1[1] * d2[2] > d2[1] * d1[2]

RECURSIVE douglasPeucker(_, _)
\* douglasPeucker(points, tolerance), tolerance given by its square
\* (polygon.worker.ts:210-233)
douglasPeucker(pts, toleranceSq) ==
    IF Len(pts) <= 2 THEN pts
    ELSE LET firstPoint == pts[1]
             lastPoint == pts[Len(pts)]
             dist(i) == perpendicularDistance(pts[i], firstPoint, lastPoint)
             inner == 2..(Len(pts) - 1)
             \* the first index that attains the largest distance
             maxIndex == CHOOSE i \in inner :
                            /\ \A j \in inner : ~Farther(dist(j), dist(i))
                            /\ \A j \in inner : j < i => Farther(dist(i), dist(j))
             maxDistance == dist(maxIndex)
         IN  IF maxDistance[1] > toleranceSq * maxDistance[2]
             THEN LET leftPart == douglasPeucker(SubSeq(pts, 1, maxIndex), toleranceSq)
                      rightPart == douglasPeucker(SubSeq(pts, maxIndex, Len(pts)), toleranceSq)
                  IN  SubSeq(leftPart, 1, Len(leftPart) - 1) \o rightPart
             ELSE <<firstPoint, lastPoint>>

\* padding > 0 ? padding * 0.0001 : 0.00005, squared (polygon.worker.ts:371)
ToleranceSq(padding) ==
    IF padding > 0 THEN padding * padding * PaddingToleranceSq ELSE DefaultToleranceSq

\* a !== b for two numbers: NaN is unequal to everything, itself included
StrictlyUnequal(a, b) == a = NaN \/ b = NaN \/ a # b

\* `if (first !== last) ring.push([...first])` (polygon.worker.ts:364-366, 374-378)
CloseRing(ring) ==
    IF /\ ring # <<>>
       /\ \/ StrictlyUnequal(ring[1][1], ring[Len(ring)][1])
          \/ StrictlyUnequal(ring[1][2], ring[Len(ring)][2])
    THEN Append(ring, ring[1])
    ELSE ring

SeqRange(q) == {q[i] : i \in 1..Len(q)}

\* the subsequences of q, by the sets of indices kept
SubSeqs(q) ==
    { [i \in 1..Cardinality(S) |->
          q[CHOOSE k \in S : Cardinality({j \in S : j < k}) = i - 1]] :
      S \in SUBSET (1..Len(q)) }

\* What concaveman(coordinates, concavity, 0) may do: throw, or hand back a
\* ring over some of the coordinates, closed or not.
HullCandidates(coordinates) ==
    LET open == {h \in SubSeqs(coordinates) : Cardinality(SeqRange(h)) = Len(h)}
    IN  {[throws |-> TRUE, ring |-> <<>>]}
        \cup {[throws |-> FALSE, ring |-> h] : h \in open}
        \cup {[throws |-> FALSE, ring |-> CloseRing(h)] : h \in open}

\* concaveman is not called for a group of fewer than 3 points
NoHull == [throws |-> FALSE, ring |-> <<>>]

\* mutant: the inner try has no catch
LeavesGroupBody_NoCatch(hull) == hull.throws

\* whether an exception thrown while a group is processed leaves the loop
\* body: the inner catch logs it and counts the group (polygon.worker.ts:421-424)
LeavesGroupBody(hull) == FALSE

\* the values of one column over the points of a group, as the Set holds them
UniqueValues(groupPoints, key) == {groupPoints[i][key] : i \in 1..Len(groupPoints)}

\* mutant: the values are counted without the Set
UniqueCount_NoSet(groupPoints, key) == Len(groupPoints)

\* uniqueValues.length (polygon.worker.ts:392-393)
UniqueCount(groupPoints, key) == Cardinality(UniqueValues(groupPoints, key))

\* aggregatedProperties once the loop over Object.keys(firstPoint) has run
\* (polygon.worker.ts:383-400).  A property that does not exist reads as
\* Undefined; unique_count[key] is the property `<key>_unique_count`, 0 when
\* it does not exist.  The loop assigns aggregatedProperties[key] for every
\* own key of the first point, the key `groupId` included.
aggregatedProperties(groupId, groupPoints, method) ==
    LET firstPoint == groupPoints[1]
        own(key) == firstPoint[key] # Undefined
        count(key) == IF own(key) /\ UniqueCount(groupPoints, key) # 1
                      THEN UniqueCount(groupPoints, key)
                      ELSE 0
    IN  [groupId |-> IF own("groupId") THEN firstPoint.groupId ELSE groupId,
         pointCount |-> Len(groupPoints),
         method |-> method,
         grp |-> firstPoint.grp,
         name |-> firstPoint.name,
         unique_count |-> [key \in AttributeKeys |-> count(key)]]

\* The body of groupedPoints.forEach for one group (polygon.worker.ts:349-425):
\* the polygon pushed, if any, and whether an exception leaves the body.
GroupBody(group, hull, req) ==
    IF Len(group.pts) < 3 THEN [polygon |-> <<>>, thrown |-> FALSE]
    ELSE IF hull.throws THEN [polygon |-> <<>>, thrown |-> LeavesGroupBody(hull)]
    ELSE IF Len(hull.ring) < 3 THEN [polygon |-> <<>>, thrown |-> FALSE]
    ELSE LET closed == CloseRing(hull.ring)
             finalCoordinates ==
                 IF req.method = "simplified"
                 THEN CloseRing(douglasPeucker(closed, ToleranceSq(req.padding)))
                 ELSE closed
         IN  [polygon |-> << [id |-> <<"polygon", group.key>>,
                              groupId |-> group.key,
                              groupField |-> req.groupField,
                              coordinates |-> finalCoordinates,
                              properties |-> aggregatedProperties(group.key, group.pts,
                                                                  req.method)] >>,
              thrown |-> FALSE]

HullIdle ==
    /\ genRequest = NoRequest
    /\ groupedPoints = <<>>
    /\ processedGroups = 0
    /\ generatedPolygons = <<>>
    /\ genPosted = <<>>
    /\ gpc = "idle"
    /\ hullLog = <<>>

\* self.onmessage up to the loop over the groups (polygon.worker.ts:325-347)
OnGenerateMessage ==
    /\ gpc = "idle"
    /\ groupedPoints' = GroupInto(<<>>, genRequest.points)
    /\ generatedPolygons' = <<>>
    /\ processedGroups' = 0
    /\ gpc' = "groups"
    /\ UNCHANGED <<genRequest, genPosted, hullLog>>
    /\ UNCHANGED <<ingestVars, ctlVars, coordVars, overlapVars>>

\* the loop body runs for the next group of the Map
GenGroup ==
    /\ gpc = "groups"
    /\ processedGroups < Len(groupedPoints)
    /\ LET group == groupedPoints[processedGroups + 1]
           coordinates == [i \in 1..Len(group.pts) |->
                              <<group.pts[i].longitude, group.pts[i].latitude>>]
       IN  \E hull \in (IF Len(group.pts) < 3 THEN {NoHull} ELSE HullCandidates(coordinates)) :
              LET body == GroupBody(group, hull, genRequest)
                  pushed == body.polygon # <<>>
              IN  IF body.thrown
                  THEN \* the outer catch (polygon.worker.ts:432-437)
                       /\ genPosted' = Append(genPosted, [type |-> "error"])
                       /\ gpc' = "done"
                       /\ UNCHANGED <<processedGroups, generatedPolygons, hullLog>>
                  ELSE /\ processedGroups' = processedGroups + 1
                       /\ generatedPolygons' = generatedPolygons \o body.polygon
                       /\ hullLog' = IF pushed THEN Append(hullLog, hull.ring) ELSE hullLog
                       /\ genPosted' = IF pushed /\ ProgressDue(processedGroups + 1)
                                       THEN Append(genPosted,
                                                   [type |-> "progress",
                                                    groupsProcessed |-> processedGroups + 1,
                                                    totalGroups |-> Len(groupedPoints),
                                                    currentGroup |-> group.key])
                                       ELSE genPosted
                       /\ gpc' = gpc
    /\ UNCHANGED <<genRequest, groupedPoints>>
    /\ UNCHANGED <<ingestVars, ctlVars, coordVars, overlapVars>>

\* every group has been visited (polygon.worker.ts:427-430)
GenComplete ==
    /\ gpc = "groups"
    /\ processedGroups = Len(groupedPoints)
    /\ genPosted' = Append(genPosted, [type |-> "complete", polygons |-> generatedPolygons])
    /\ gpc' = "done"
    /\ UNCHANGED <<genRequest, groupedPoints, processedGroups, generatedPolygons, hullLog>>
    /\ UNCHANGED <<ingestVars, ctlVars, coordVars, overlapVars>>

----------------------------------------------------------------------------
(***************************************************************************)
(* parseCoordinate (part_004:126-173).  A string is the sequence of its    *)
(* characters.  A finite number is kept exactly, as the integer `mant`     *)
(* divided by 10^scale with no trailing zero in the fraction, so that two  *)
(* results are equal exactly when the numbers are.                         *)
(***************************************************************************)
MaxLen ==
    6

Digits == {"0", "1", "2", "3", "4", "5", "6", "7", "8", "9"}

\* the characters of the generated strings: two digits, the two separators,
\* a blank and a character that belongs to no number
Alphabet == {"1", "2", ",", ".", " ", "a"}

Strings == UNION {[1..n -> Alphabet] : n \in 0..MaxLen}

\* the strings the documentation gives as examples
ExampleStrings ==
    { <<"1", ".", "2", "3", "4", ",", "5", "6">>,
      <<"1", ",", "2", "3", "4", ".", "5", "6">>,
      <<"1", "2", ",", "3", "4">> }

RawValues ==
    { [kind |-> "undefined", chars |-> <<>>], [kind |-> "null", chars |-> <<>>] }
    \cup { [kind |-> "string", chars |-> s] : s \in Strings \cup ExampleStrings }

NullResult == [kind |-> "null", mant |-> 0, scale |-> 0]

Pending == [kind |-> "pending", mant |-> 0, scale |-> 0]

IsSpace(c) == c = " "

RECURSIVE TrimStart(_)
TrimStart(s) == IF s # <<>> /\ IsSpace(Head(s)) THEN TrimStart(Tail(s)) ELSE s

RECURSIVE TrimEnd(_)
TrimEnd(s) ==
    IF s # <<>> /\ IsSpace(s[Len(s)]) THEN TrimEnd(SubSeq(s, 1, Len(s) - 1)) ELSE s

\* String.prototype.trim
Trim(s) == TrimEnd(TrimStart(s))

\* str.replace(/c/g, '')
RemoveAll(s, c) == SelectSeq(s, LAMBDA x : x # c)

\* str.replace(/\s/g, '')
RemoveSpaces(s) == SelectSeq(s, LAMBDA x : ~IsSpace(x))

\* str.includes(c)
Includes(s, c) == \E i \in 1..Len(s) : s[i] = c

\* str.indexOf(c) and str.lastIndexOf(c), counted from 1, 0 for "not found"
IndexOf(s, c) ==
    IF Includes(s, c) THEN CHOOSE i \in 1..Len(s) : s[i] = c /\ \A j \in 1..(i - 1) : s[j] # c
    ELSE 0

LastIndexOf(s, c) ==
    IF Includes(s, c)
    THEN CHOOSE i \in 1..Len(s) : s[i] = c /\ \A j \in (i + 1)..Len(s) : s[j] # c
    ELSE 0

\* str.replace(c, by): the first occurrence only
ReplaceFirst(s, c, by) ==
    IF Includes(s, c) THEN [s EXCEPT ![IndexOf(s, c)] = by] ELSE s

DigitValue(c) ==
    CASE c = "0" -> 0 [] c = "1" -> 1 [] c = "2" -> 2 [] c = "3" -> 3 [] c = "4" -> 4
      [] c = "5" -> 5 [] c = "6" -> 6 [] c = "7" -> 7 [] c = "8" -> 8 [] c = "9" -> 9

RECURSIVE DigitsValue(_)
DigitsValue(s) ==
    IF s = <<>> THEN 0 ELSE 10 * DigitsValue(SubSeq(s, 1, Len(s) - 1)) + DigitValue(s[Len(s)])

RECURSIVE StripTrailingZeros(_)
StripTrailingZeros(s) ==
    IF s # <<>> /\ s[Len(s)] = "0" THEN StripTrailingZeros(SubSeq(s, 1, Len(s) - 1)) ELSE s

AllDigits(s) == \A i \in 1..Len(s) : s[i] \in Digits

\* Number(str) followed by `Number.isFinite(num) ? num : null`
\* (part_004:171-172), for strings of digits, separators and letters other
\* than those of a sign, an exponent, a radix prefix or Infinity: the empty
\* string is 0, a decimal literal is its value, anything else is NaN.
NumberOrNull(s) ==
    IF s = <<>> THEN [kind |-> "number", mant |-> 0, scale |-> 0]
    ELSE LET dot == IndexOf(s, ".")
             intPart == IF dot = 0 THEN s ELSE SubSeq(s, 1, dot - 1)
             fracPart == IF dot = 0 THEN <<>> ELSE SubSeq(s, dot + 1, Len(s))
         IN  IF AllDigits(intPart) /\ AllDigits(fracPart) /\ Len(intPart) + Len(fracPart) > 0
             THEN LET frac == StripTrailingZeros(fracPart)
                  IN  [kind |-> "number", mant |-> DigitsValue(intPart \o frac),
                       scale |-> Len(frac)]
             ELSE NullResult

\* mutant: the separator that occurs first decides
CommaIsDecimal_First(s) == IndexOf(s, ",") > IndexOf(s, ".")

\* lastComma > lastPeriod  (part_004:148-151)
CommaIsDecimal(s) == LastIndexOf(s, ",") > LastIndexOf(s, ".")

\* mutant: the number of commas is not looked at
SingleCommaIsDecimal_AnyCount(s) == Len(s) - LastIndexOf(s, ",") <= 3

\* parts.length === 2 && parts[1].length <= 3 for parts = str.split(',')
\* (part_004:161-162)
SingleCommaIsDecimal(s) ==
    /\ Len(RemoveAll(s, ",")) = Len(s) - 1
    /\ Len(s) - IndexOf(s, ",") <= 3

\* the string handed to Number() (part_004:132-169)
Normalized(chars) ==
    LET strValue == RemoveSpaces(Trim(chars))
        hasComma == Includes(strValue, ",")
        hasPeriod == Includes(strValue, ".")
    IN  IF hasComma /\ hasPeriod
        THEN IF CommaIsDecimal(strValue)
             THEN ReplaceFirst(RemoveAll(strValue, "."), ",", ".")
             ELSE RemoveAll(strValue, ",")
        ELSE IF hasComma /\ ~hasPeriod
        THEN IF SingleCommaIsDecimal(strValue)
             THEN ReplaceFirst(strValue, ",", ".")
             ELSE RemoveAll(strValue, ",")
        ELSE strValue

parseCoordinate(value) ==
    IF value.kind \in {"undefined", "null"} \/ value.chars = <<>>
    THEN NullResult
    ELSE NumberOrNull(Normalized(value.chars))

\* no call of parseCoordinate is modelled
CoordIdle ==
    /\ rawValue = [kind |-> "undefined", chars |-> <<>>]
    /\ parsed = Pending

\* parseCoordinate is called on a raw field (part_004:227-228)
ParseCoordinate ==
    /\ parsed = Pending
    /\ parsed' = parseCoordinate(rawValue)
    /\ UNCHANGED rawValue
    /\ UNCHANGED <<ingestVars, ctlVars, hullVars, overlapVars>>

----------------------------------------------------------------------------
Init == IngestInit /\ CtlIdle /\ CoordIdle /\ HullIdle /\ OverlapIdle

Next ==
    \/ OnParseMessage
    \/ ChunkRow
    \/ ParseComplete
    \/ ParseError

Spec == Init /\ [][Next]_vars

CtlInit ==
    /\ IngestInit
    /\ header = <<"lon", "lat", "zone">>
    /\ CtlIdle
    /\ CoordIdle
    /\ HullIdle
    /\ OverlapIdle

CtlNext ==
    \/ ProcessCSV
    \/ \E r \in CsvRunIds : CsvRow(r)
    \/ \E r \in CsvRunIds : CsvComplete(r)
    \/ \E r \in CsvRunIds : CsvReadError(r)
    \/ \E r \in CsvRunIds : CsvWorkerFault(r)
    \/ \E r \in CsvRunIds : HandleCsvMessage(r)
    \/ HandleRemoveFile
    \/ HandleGeneratePolygons
    \/ \E g \in GenRunIds : PolyGroup(g)
    \/ \E g \in GenRunIds : PolyComplete(g)
    \/ \E g \in GenRunIds : PolyWorkerFault(g)
    \/ \E g \in GenRunIds : HandlePolyMessage(g)
    \/ ResetEffect
    \/ Unmount
    \/ Mount

CtlSpec == CtlInit /\ [][CtlNext]_vars

\* A live worker keeps running and the event loop dispatches posted messages.
CtlFairness ==
    /\ \A r \in CsvRunIds :
          /\ WF_vars(CsvRow(r) \/ CsvComplete(r) \/ CsvReadError(r) \/ CsvWorkerFault(r))
          /\ WF_vars(HandleCsvMessage(r))
    /\ \A g \in GenRunIds :
          /\ WF_vars(PolyGroup(g) \/ PolyComplete(g) \/ PolyWorkerFault(g))
          /\ WF_vars(HandlePolyMessage(g))

LiveSpec == CtlInit /\ [][CtlNext]_vars /\ CtlFairness

\* one generation request handled by the polygon worker
GenInit ==
    /\ IngestInit
    /\ header = <<"lon", "lat", "zone">>
    /\ CtlIdle
    /\ CoordIdle
    /\ \E n \in 0..MaxPoints : \E f \in [1..n -> GridCoords \X GroupValues] :
          \E m \in Methods, pad \in Paddings :
             \* padding is read under method `simplified` only
             /\ m = "concave" => pad = 1
             /\ genRequest = Request(PointList(f), m, pad)
    /\ groupedPoints = <<>>
    /\ processedGroups = 0
    /\ generatedPolygons = <<>>
    /\ genPosted = <<>>
    /\ gpc = "idle"
    /\ hullLog = <<>>
    /\ OverlapIdle

GenNext ==
    \/ OnGenerateMessage
    \/ GenGroup
    \/ GenComplete

GenSpec == GenInit /\ [][GenNext]_vars

\* one generation request whose points carry CSV columns; one of the points
\* may have a longitude that is not a number (the hull is then left as
\* concaveman returned it: method `concave`)
AttrGenInit ==
    /\ IngestInit
    /\ header = <<"lon", "lat", "zone">>
    /\ CtlIdle
    /\ CoordIdle
    /\ \E n \in 0..MaxAttrPoints :
          \E f \in [1..n -> {"a", Undefined} \X {"p", "q"} \X {"g", Undefined}] :
             \E bad \in 0..n, m \in Methods :
                /\ bad # 0 => m = "concave"
                /\ genRequest = Request(AttrPointList(f, bad), m, 1)
    /\ groupedPoints = <<>>
    /\ processedGroups = 0
    /\ generatedPolygons = <<>>
    /\ genPosted = <<>>
    /\ gpc = "idle"
    /\ hullLog = <<>>
    /\ OverlapIdle

AttrGenSpec == AttrGenInit /\ [][GenNext]_vars

\* one call of detectColumns
DetectInit ==
    /\ header \in Headers
    /\ rowIndex = 0
    /\ pointsBuffer = <<>>
    /\ errorsBuffer = <<>>
    /\ detectedLonCol = "null"
    /\ detectedLatCol = "null"
    /\ detectedGroupCol = "null"
    /\ columnsDetected = FALSE
    /\ wpc = "idle"
    /\ posted = <<>>
    /\ fileRows = 0
    /\ accepted = <<>>
    /\ eof = FALSE
    /\ rowLog = <<>>
    /\ CtlIdle
    /\ CoordIdle
    /\ HullIdle
    /\ OverlapIdle

DetectNext == DetectColumns

DetectSpec == DetectInit /\ [][DetectNext]_vars

\* one call of parseCoordinate
ParseInit ==
    /\ IngestInit
    /\ header = <<"lon", "lat", "zone">>
    /\ CtlIdle
    /\ HullIdle
    /\ rawValue \in RawValues
    /\ parsed = Pending
    /\ OverlapIdle

ParseNext == ParseCoordinate

ParseSpec == ParseInit /\ [][ParseNext]_vars

\* two `parse` requests sent to one worker
OverlapInit ==
    /\ IngestInit
    /\ header = FileHeader(1)
    /\ CtlIdle
    /\ CoordIdle
    /\ HullIdle
    /\ OverlapIdle

OverlapNext ==
    \/ \E p \in ParseIds : ReceiveParse(p)
    \/ \E p \in ParseIds : ParserRow(p)
    \/ \E p \in ParseIds : ParserComplete(p)

OverlapSpec == OverlapInit /\ [][OverlapNext]_vars

----------------------------------------------------------------------------
(***************************************************************************)
(* Properties of one ingestion run (specification Spec).                   *)
(***************************************************************************)
Last(s) == s[Len(s)]

RECURSIVE ChunkPoints(_)
\* the points of all chunk events of a message log, in posting order
ChunkPoints(log) ==
    IF log = <<>> THEN <<>>
    ELSE (IF Head(log).type = "chunk" THEN Head(log).points ELSE <<>>)
         \o ChunkPoints(Tail(log))

Ids(pts) == [i \in 1..Len(pts) |-> pts[i].id]

IsTerminal(m) == m.type \in {"complete", "error"}

ColumnsMissing == detectLon(header) = "null" \/ detectLat(header) = "null"

\* C1: when a run has posted `complete`, the points of all its events plus
\* the entries of the error list of `complete` number the data rows of the
\* file (stated for the files whose coordinate columns are found; C6 covers
\* the others).
C1_PointsPlusErrorsEqualRows ==
    (wpc = "done" /\ Last(posted).type = "complete" /\ ~ColumnsMissing)
        => Len(ChunkPoints(posted)) + Len(Last(posted).errors) = fileRows

\* C5: at end of file the terminal event is `error` if every data row failed,
\* and `complete` with the error list and the detected columns if a row
\* yielded a point (stated for the files whose coordinate columns are found).
C5_TerminalEventKind ==
    (wpc = "done" /\ eof /\ ~ColumnsMissing) =>
        /\ (fileRows > 0 /\ accepted = <<>>) => Last(posted).type = "error"
        /\ (accepted # <<>>) =>
              /\ Last(posted).type = "complete"
              /\ Last(posted).errors = errorsBuffer
              /\ Last(posted).detectedColumns =
                    [longitude |-> detectLon(header), latitude |-> detectLat(header),
                     group |-> detectGroup(header)]

\* C6: a run whose header has no longitude or no latitude column ends with
\* `error` and posts no `complete`.
C6_MissingColumnsEndInError ==
    (wpc = "done" /\ fileRows > 0 /\ ColumnsMissing) =>
        /\ Last(posted).type = "error"
        /\ \A i \in 1..Len(posted) : posted[i].type # "complete"

\* C7: a run posts at most one terminal event and nothing after it; chunk
\* events carry the points in row order; when `complete` is posted every
\* point built during the run has been posted in a chunk before it.
C7_EventOrder ==
    /\ \A i \in 1..Len(posted) : IsTerminal(posted[i]) => i = Len(posted)
    /\ LET ids == Ids(ChunkPoints(posted))
       IN  \A i, j \in 1..Len(ids) : i < j => ids[i] < ids[j]
    /\ (wpc = "done" /\ Last(posted).type = "complete")
          => Ids(ChunkPoints(posted)) = accepted

\* a finished run with a full chunk, a final partial chunk and `complete`
C7_Witness ==
    /\ wpc = "done"
    /\ Len(posted) >= 3
    /\ Last(posted).type = "complete"
    /\ posted[Len(posted) - 1].type = "chunk"
    /\ Len(posted[Len(posted) - 1].points) < CHUNK_SIZE
    /\ \E i \in 1..(Len(posted) - 2) : posted[i].type = "chunk"

\* every point the run has built so far, in the order of construction
AllPoints == ChunkPoints(posted) \o pointsBuffer

IsNumber(v) == v # <<>>

InRange(lon, lat) == lon \in -180..180 /\ lat \in -90..90

ErrorsOfRow(n) == {i \in 1..Len(errorsBuffer) : errorsBuffer[i].row = n}

PointsOfRow(n) == {i \in 1..Len(AllPoints) : AllPoints[i].id = n - 1}

\* C15: a row whose parsed pair is out of range gives a point with the two
\* values exchanged, and no error entry, exactly when the exchanged pair is
\* in range; otherwise it gives no point and an entry of the error list
\* (stated for the files whose coordinate columns are found).
C15_SwapOrReject ==
    ~ColumnsMissing =>
        \A n \in 1..Len(rowLog) :
            LET row == rowLog[n]
            IN  (/\ IsNumber(row.longitude) /\ IsNumber(row.latitude)
                 /\ ~InRange(row.longitude[1], row.latitude[1]))
                => IF InRange(row.latitude[1], row.longitude[1])
                   THEN /\ \E i \in PointsOfRow(n) :
                              /\ AllPoints[i].longitude = row.latitude[1]
                              /\ AllPoints[i].latitude = row.longitude[1]
                        /\ ErrorsOfRow(n) = {}
                   ELSE /\ PointsOfRow(n) = {}
                        /\ ErrorsOfRow(n) # {}

\* C23: each time the count of processed rows reaches a multiple of the
\* progress interval, a `progress` event with that count is posted, whether
\* the row was accepted, swapped or rejected and whether or not a chunk was
\* flushed (stated for the files whose coordinate columns are found).
C23_ProgressAtEveryInterval ==
    ~ColumnsMissing =>
        \A n \in 1..rowIndex :
            n % PROGRESS_EVERY = 0 =>
                \E i \in 1..Len(posted) :
                    posted[i].type = "progress" /\ posted[i].rowsProcessed = n

\* C25: the point buffer holds at most CHUNK_SIZE points in every state and
\* every `chunk` event carries at most CHUNK_SIZE points, whatever mix of
\* normal and swapped rows the file contains.
C25_BufferAndChunksAreBounded ==
    /\ Len(pointsBuffer) <= CHUNK_SIZE
    /\ \A i \in 1..Len(posted) :
          posted[i].type = "chunk" => Len(posted[i].points) <= CHUNK_SIZE

\* the requests whose file the rows processed since the last reset came from
SourcesSinceReset ==
    {rowSource[k] : k \in (Len(rowSource) - rowIndex + 1)..Len(rowSource)}

\* C26: when the worker receives a second `parse` request before the first
\* parse has posted its terminal event, the state of the two runs never
\* mixes: from the second request on, the rows counted, and with them the
\* points and errors buffered, are rows of the second file only, and the
\* detected columns are those of the second file.
C26_RunsDoNotMix ==
    parsers[2].state # "waiting" =>
        /\ SourcesSinceReset \subseteq {2}
        /\ rowIndex = parsers[2].rows
        /\ columnsDetected =>
              /\ detectedLonCol = detectLon(FileHeader(2))
              /\ detectedLatCol = detectLat(FileHeader(2))
              /\ detectedGroupCol = detectGroup(FileHeader(2))

----------------------------------------------------------------------------
(***************************************************************************)
(* Properties of the controllers (specifications CtlSpec and LiveSpec).    *)
(***************************************************************************)
CallsOf(r) == {i \in 1..Len(calls) : calls[i].run = r}

\* C2: once a second processCSV has started, no message of the superseded
\* worker is dispatched and the caller observes no outcome of the superseded
\* run: every outcome is that of the run started last, at most one per run,
\* and exactly one once that run's terminal message has been dispatched.
C2_OnlyNewestRunObserved ==
    /\ "Superseded" \notin lateHandled
    /\ \A i \in 1..Len(calls) : calls[i].run = calls[i].latest
    /\ \A r \in CsvRunIds :
          /\ Cardinality(CallsOf(r)) <= 1
          /\ runState[r] = "Superseded" => CallsOf(r) = {}
          /\ runState[r] \in {"Completed", "Failed"} => Cardinality(CallsOf(r)) = 1

\* the first run was superseded after its worker had posted points, and the
\* second run has delivered its outcome
C2_Witness ==
    /\ runState[1] = "Superseded"
    /\ emitted[1] # <<>>
    /\ runState[2] \in {"Completed", "Failed"}
    /\ Len(calls) = 1 /\ calls[1].run = 2

\* C3: the list handed to onPointsLoaded for run N holds only points of the
\* file of run N.
C3_OnlyPointsOfOwnFile ==
    \A i \in 1..Len(calls) :
        calls[i].kind = "points" =>
            \A k \in 1..Len(calls[i].points) : calls[i].points[k].file = calls[i].run

\* C4: the list handed to onPointsLoaded holds every point the worker posted
\* during the run, each once and in posting order.
C4_AllPostedPointsDelivered ==
    \A i \in 1..Len(calls) :
        calls[i].kind = "points" => calls[i].points = emitted[calls[i].run]

C9_OneLiveWorkerPerKind ==
    /\ Cardinality({r \in CsvRunIds : csvW[r].live}) <= 1
    /\ Cardinality({g \in GenRunIds : polyW[g].live}) <= 1
    /\ \A r \in CsvRunIds : csvW[r].live => (r = csvRuns /\ workerRef = r)
    /\ \A g \in GenRunIds : polyW[g].live => (g = genRuns /\ polygonWorkerRef = g)

\* a second generation run was started while the first worker was at work
C9_Witness ==
    /\ genState[1] = "Superseded" /\ ~polyW[1].done /\ ~polyW[1].live
    /\ polyW[2].live

Busy(r) == runState[r] = "Running"

GenBusy(g) == genState[g] = "Running"

C27_RemovedFileLoadsNoPoints ==
    [][(~uploadedFile /\ ~uploadedFile' /\ points = <<>>) => points' = <<>>]_vars

\* the `complete` message of generation run g is dispatched in this step and
\* hands at least one polygon to onPolygonsGenerated
DeliversPolygons(g) ==
    /\ polyQ[g] # <<>>
    /\ Head(polyQ[g]).type = "complete"
    /\ Len(Head(polyQ[g]).polygons) > 0
    /\ genCalls'[g] = genCalls[g] + 1

\* C28: once the data is cleared or a new file is loaded while a generation
\* is in progress, no polygon of the previous point set is delivered to
\* onPolygonsGenerated: polygons are delivered only while the caller's
\* point list is the one the generation was started with.
C28_NoPolygonsOfPreviousPoints ==
    [][\A g \in GenRunIds : DeliversPolygons(g) => polyW[g].points = points]_vars

----------------------------------------------------------------------------
(***************************************************************************)
(* Properties of one generation run (specifications GenSpec, AttrGenSpec). *)
(***************************************************************************)
GenFinished == gpc = "done"

\* the polygons of the `complete` event, none while there is no such event
CompletePolygons ==
    IF GenFinished /\ Last(genPosted).type = "complete"
    THEN Last(genPosted).polygons
    ELSE <<>>

IsClosedRing(c) == Len(c) >= 4 /\ c[1] = c[Len(c)]

\* the number of points of the request that fall under group key k
GroupSize(k) ==
    Cardinality({i \in 1..Len(genRequest.points) : GroupKey(genRequest.points[i]) = k})

RequestKeys == {GroupKey(genRequest.points[i]) : i \in 1..Len(genRequest.points)}

\* C11: every polygon of a `complete` event, under either method, has a
\* coordinate list of at least 4 elements whose first element equals its
\* last (stated for the polygons whose hull, as concaveman returned it, has
\* at least 3 distinct vertices).
C11_PolygonsAreClosedRings ==
    \A i \in 1..Len(CompletePolygons) :
        Cardinality(SeqRange(hullLog[i])) >= 3
            => IsClosedRing(CompletePolygons[i].coordinates)

\* C12: a group of 1 or 2 points contributes no polygon, the run ends with
\* `complete`, and `complete` holds at most one polygon per group of at
\* least 3 points.
C12_SmallGroupsYieldNoPolygon ==
    /\ \A i \in 1..Len(generatedPolygons) : GroupSize(generatedPolygons[i].groupId) >= 3
    /\ \A i, j \in 1..Len(generatedPolygons) :
          i # j => generatedPolygons[i].groupId # generatedPolygons[j].groupId
    /\ GenFinished =>
          /\ Last(genPosted).type = "complete"
          /\ Last(genPosted).polygons = generatedPolygons
          /\ Len(Last(genPosted).polygons)
                <= Cardinality({k \in RequestKeys : GroupSize(k) >= 3})

\* a finished run over a group of 3 points that gave a polygon and a group
\* of 1 point that gave none
C12_Witness ==
    /\ GenFinished
    /\ Len(CompletePolygons) = 1
    /\ \E k \in RequestKeys : GroupSize(k) \in {1, 2}
    /\ Cardinality(RequestKeys) = 2

\* C20: the points whose group attribute is undefined or null all fall into
\* one group, its key is "default", and a polygon built from them has
\* groupId "default" and id polygon-default.
C20_AbsentGroupKeyIsDefault ==
    /\ Cardinality({i \in 1..Len(groupedPoints) :
                       \E k \in 1..Len(groupedPoints[i].pts) :
                          groupedPoints[i].pts[k].grp \in {Undefined, Null}}) <= 1
    /\ \A i \in 1..Len(CompletePolygons) :
          \A g \in 1..Len(groupedPoints) :
             (/\ groupedPoints[g].key = CompletePolygons[i].groupId
              /\ \E k \in 1..Len(groupedPoints[g].pts) :
                    groupedPoints[g].pts[k].grp \in {Undefined, Null})
             => /\ CompletePolygons[i].groupId = "default"
                /\ CompletePolygons[i].id = <<"polygon", "default">>

\* the points of the request that fall under group key k, in request order
GroupPoints(k) ==
    SelectSeq(genRequest.points, LAMBDA point : GroupKey(point) = k)

\* the columns the first point of a group carries
FirstPointKeys(k) == {key \in AttributeKeys : GroupPoints(k)[1][key] # Undefined}

\* the distinct values of a column over the points of a group
DistinctValues(k, key) ==
    {GroupPoints(k)[i][key] : i \in 1..Len(GroupPoints(k))}

\* C21: for each attribute key of a group's first point other than id,
\* longitude and latitude: if all points of the group have the same value
\* the polygon property holds that value and there is no
\* `<key>_unique_count` property; otherwise the property holds the first
\* point's value and `<key>_unique_count` is the number of distinct values
\* in the group.
C21_AttributesAreSummarised ==
    \A i \in 1..Len(CompletePolygons) :
        LET polygon == CompletePolygons[i]
            k == polygon.groupId
        IN  \A key \in FirstPointKeys(k) :
               /\ polygon.properties[key] = GroupPoints(k)[1][key]
               /\ polygon.properties.unique_count[key] =
                     IF Cardinality(DistinctValues(k, key)) = 1
                     THEN 0
                     ELSE Cardinality(DistinctValues(k, key))

\* a polygon of a group whose points agree on one column and differ on
\* another
C21_Witness ==
    \E i \in 1..Len(CompletePolygons) :
        LET polygon == CompletePolygons[i]
            k == polygon.groupId
        IN  /\ \E key \in FirstPointKeys(k) :
                  /\ Cardinality(DistinctValues(k, key)) = 1
                  /\ polygon.properties.unique_count[key] = 0
            /\ \E key \in FirstPointKeys(k) :
                  /\ Cardinality(DistinctValues(k, key)) = 2
                  /\ polygon.properties.unique_count[key] = 2

\* C24: each time the count of processed groups reaches a multiple of the
\* progress interval, a `progress` event is posted whose groupsProcessed is
\* that count and whose currentGroup is the group just processed, whether
\* that group gave a polygon or was skipped; groupsProcessed never exceeds
\* totalGroups.
C24_ProgressAtEveryGroupInterval ==
    /\ \A n \in 1..processedGroups :
          ProgressDue(n) =>
              \E i \in 1..Len(genPosted) :
                  /\ genPosted[i].type = "progress"
                  /\ genPosted[i].groupsProcessed = n
                  /\ genPosted[i].currentGroup = groupedPoints[n].key
    /\ \A i \in 1..Len(genPosted) :
          genPosted[i].type = "progress"
              => genPosted[i].groupsProcessed <= genPosted[i].totalGroups

IsFinite(v) == v # NaN

\* C22: no polygon of a `complete` event contains a coordinate that is not
\* finite (a hull with such a coordinate is discarded), and the run still
\* ends with `complete`.
C22_NoNonFiniteCoordinate ==
    /\ \A i \in 1..Len(CompletePolygons) :
          \A c \in SeqRange(CompletePolygons[i].coordinates) :
             IsFinite(c[1]) /\ IsFinite(c[2])
    /\ GenFinished => Last(genPosted).type = "complete"

\* C29: for every emitted polygon, properties.pointCount is the number of
\* input points in its group, properties.groupId is its group key and
\* properties.method is the requested method, whatever columns the input
\* points carry.
C29_BasePropertiesDescribeTheGroup ==
    \A i \in 1..Len(CompletePolygons) :
        LET polygon == CompletePolygons[i]
        IN  /\ polygon.properties.pointCount = GroupSize(polygon.groupId)
            /\ polygon.properties.groupId = polygon.groupId
            /\ polygon.properties.method = genRequest.method

----------------------------------------------------------------------------
(***************************************************************************)
(* Properties of parseCoordinate (specification ParseSpec).                *)
(***************************************************************************)
Returned == parsed # Pending

IsString == rawValue.kind = "string"

\* the number mant / 10^scale
Decimal(mant, scale) == [kind |-> "number", mant |-> mant, scale |-> scale]

\* s with every c replaced by `by`
ReplaceEach(s, c, by) == [i \in 1..Len(s) |-> IF s[i] = c THEN by ELSE s[i]]

CountOf(s, c) == Cardinality({i \in 1..Len(s) : s[i] = c})

\* C16: parseCoordinate returns null for undefined, for null and for every
\* string that is empty once leading and trailing whitespace is removed.
C16_BlankIsInvalid ==
    (Returned /\ (~IsString \/ Trim(rawValue.chars) = <<>>)) => parsed = NullResult

\* C17: for a string that holds both separators the result is the number
\* read with the kind of separator that occurs rightmost as decimal point
\* and every occurrence of the other kind removed; "1.234,56" and
\* "1,234.56" give 1234.56.
C17_RightmostSeparatorIsDecimal ==
    (Returned /\ IsString /\ CountOf(rawValue.chars, ",") > 0
              /\ CountOf(rawValue.chars, ".") > 0) =>
        LET t == RemoveSpaces(rawValue.chars)
            commaLast == \E i \in 1..Len(t) :
                            t[i] = "," /\ \A j \in i..Len(t) : t[j] # "."
            read == IF commaLast
                    THEN ReplaceEach(RemoveAll(t, "."), ",", ".")
                    ELSE RemoveAll(t, ",")
        IN  /\ parsed = NumberOrNull(read)
            /\ rawValue.chars \in { <<"1", ".", "2", "3", "4", ",", "5", "6">>,
                                    <<"1", ",", "2", "3", "4", ".", "5", "6">> }
                  => parsed = Decimal(123456, 2)

\* parseCoordinate("1.234,56") has returned 1234.56
C17_Witness ==
    /\ rawValue.chars = <<"1", ".", "2", "3", "4", ",", "5", "6">>
    /\ parsed = Decimal(123456, 2)

\* C18: for a string that holds a comma and no period the comma is read as
\* decimal point exactly when what follows it is at most 3 digits, and
\* otherwise all commas are removed; "12,34" gives 12.34.
C18_CommaIsDecimalWhenFewDigitsFollow ==
    (Returned /\ IsString /\ CountOf(rawValue.chars, ",") > 0
              /\ CountOf(rawValue.chars, ".") = 0) =>
        LET t == RemoveSpaces(rawValue.chars)
            following == SubSeq(t, IndexOf(t, ",") + 1, Len(t))
        IN  /\ parsed = NumberOrNull(IF Len(following) <= 3 /\ AllDigits(following)
                                     THEN ReplaceEach(t, ",", ".")
                                     ELSE RemoveAll(t, ","))
            /\ rawValue.chars = <<"1", "2", ",", "3", "4">> => parsed = Decimal(1234, 2)

\* parseCoordinate("12,34") has returned 12.34
C18_Witness ==
    /\ rawValue.chars = <<"1", "2", ",", "3", "4">>
    /\ parsed = Decimal(1234, 2)

----------------------------------------------------------------------------
(***************************************************************************)
(* Properties of column detection (specification DetectSpec).              *)
(***************************************************************************)
\* whether some column matches pattern number k
PatternIsMatched(columns, patterns, k) ==
    \E i \in 1..Len(columns) : columns[i] \in patterns[k]

\* the column C19 describes: it matches a pattern that no earlier pattern of
\* the list is matched by any column, and no column before it matches that
\* pattern; "null" when no column matches any pattern
PriorityColumn(columns, patterns) ==
    LET wins(i) == \E k \in 1..Len(patterns) :
                      /\ columns[i] \in patterns[k]
                      /\ \A j \in 1..(k - 1) : ~PatternIsMatched(columns, patterns, j)
                      /\ \A h \in 1..(i - 1) : columns[h] \notin patterns[k]
    IN  IF \E i \in 1..Len(columns) : wins(i)
        THEN columns[CHOOSE i \in 1..Len(columns) : wins(i)]
        ELSE "null"

\* C19: findMatchingColumn returns the first header that matches the
\* earliest pattern matched by any header, pattern priority before header
\* position (`lon` wins over `long_name` placed before it), and null when no
\* header matches any pattern.
C19_PatternPriorityThenHeaderOrder ==
    columnsDetected =>
        /\ detectedLonCol = PriorityColumn(header, LONGITUDE_PATTERNS)
        /\ detectedLatCol = PriorityColumn(header, LATITUDE_PATTERNS)
        /\ detectedGroupCol =
              PriorityColumn(SelectSeq(header, LAMBDA c : c \notin {detectedLonCol,
                                                                    detectedLatCol}),
                             GROUP_PATTERNS)
        /\ (\E i \in 1..Len(header) : header[i] = "lon") => detectedLonCol = "lon"
        /\ (\A i \in 1..Len(header) : header[i] \in {"name", "zone"})
              => detectedLonCol = "null" /\ detectedLatCol = "null"

\* detection has chosen `lon` although `long_name`, which matches /lon/i,
\* stands before it, and `lat` although `plate` stands before it
C19_Witness ==
    /\ columnsDetected
    /\ header = <<"long_name", "plate", "lon", "lat">>
    /\ detectedLonCol = "lon" /\ detectedLatCol = "lat"

\* C30: the longitude, latitude and group columns detectColumns returns are
\* pairwise distinct whenever they are not null.
C30_DetectedColumnsAreDistinct ==
    columnsDetected =>
        /\ (detectedLonCol # "null" /\ detectedLatCol # "null")
              => detectedLonCol # detectedLatCol
        /\ detectedGroupCol # "null"
              => detectedGroupCol \notin {detectedLonCol, detectedLatCol}

====
